---- MODULE Spec2Model ----
(***************************************************************************)
(* Model of package euroxref (euroxref.go): a client that downloads the    *)
(* ECB 90-day reference-rate document, caches it for RefreshInterval       *)
(* seconds, looks a day up in it, parses and rounds the day's rates and    *)
(* converts an amount between two currencies.                              *)
(*                                                                         *)
(* Strings whose content the code inspects (date stamps, rate strings) are *)
(* sequences of one-character strings, so that formatting and parsing are  *)
(* computed.  Currency codes are only compared for equality and stay TLA+  *)
(* strings.  float64 values are exact rationals [n, d] in lowest terms;    *)
(* the inputs of the model avoid rounding ties and zero or negative rates, *)
(* where binary floating point and the uint64 conversion of roundFloat     *)
(* would differ from exact arithmetic.                                     *)
(***************************************************************************)
EXTENDS Integers, Sequences, FiniteSets, TLC

(***************************************************************************)
(* Bounds of the model.                                                    *)
(***************************************************************************)
\* the clock runs for MaxTime seconds after the client was built
MaxTime == 3
\* the positive refresh interval a client is built with, beside 0
PositiveInterval == 2
\* the largest precision a client is built with, beside 0
MaxPrecision == 3

(***************************************************************************)
(* Program constants.                                                      *)
(***************************************************************************)
EUCurr == "EUR"

\* float64 values: exact rationals in lowest terms, d > 0
RECURSIVE GCD(_, _)
GCD(a, b) == IF b = 0 THEN a ELSE GCD(b, a % b)

Abs(x) == IF x < 0 THEN -x ELSE x

Rat(n, d) ==
  LET g == GCD(Abs(n), d)
  IN  IF g = 0 THEN [n |-> 0, d |-> 1] ELSE [n |-> n \div g, d |-> d \div g]

RMul(a, b) ==
  LET g1 == GCD(Abs(a.n), b.d)
      g2 == GCD(Abs(b.n), a.d)
  IN  Rat((a.n \div g1) * (b.n \div g2), (a.d \div g2) * (b.d \div g1))

\* a / b for b > 0
RDiv(a, b) == RMul(a, [n |-> b.d, d |-> b.n])

RNeg(a) == a.n < 0

EURate == [n |-> 1, d |-> 1]

Zero == [n |-> 0, d |-> 1]

RECURSIVE Pow10(_)
Pow10(k) == IF k = 0 THEN 1 ELSE 10 * Pow10(k - 1)

\* roundFloat: uint64(num + 0.5) truncates, for num >= 0
roundFloat(num) == (2 * num.n + num.d) \div (2 * num.d)

FloatToFixed(num, p) ==
  LET pr  == IF p < 1 THEN 1 ELSE p
      exp == Pow10(pr)
  IN  Rat(roundFloat(RMul(num, [n |-> exp, d |-> 1])), exp)

(***************************************************************************)
(* time.Time values, Format and Parse with XRefDateLayout "2006-01-02".    *)
(***************************************************************************)
Digits == <<"0", "1", "2", "3", "4", "5", "6", "7", "8", "9">>

IsDigit(c) == \E i \in 1..10 : Digits[i] = c

DigitVal(c) == (CHOOSE i \in 1..10 : Digits[i] = c) - 1

\* the w low decimal digits of n, zero padded
RECURSIVE Pad(_, _)
Pad(n, w) == IF w = 0 THEN <<>> ELSE Append(Pad(n \div 10, w - 1), Digits[(n % 10) + 1])

\* t.Format(XRefDateLayout)
FormatDate(t) == Pad(t.year, 4) \o <<"-">> \o Pad(t.month, 2) \o <<"-">> \o Pad(t.day, 2)

RECURSIVE Atoi(_)
Atoi(s) == IF s = <<>> THEN 0 ELSE 10 * Atoi(SubSeq(s, 1, Len(s) - 1)) + DigitVal(s[Len(s)])

IsLeap(y) == (y % 4 = 0) /\ ((y % 100 # 0) \/ (y % 400 = 0))

DaysIn(m, y) ==
  IF m = 2 THEN (IF IsLeap(y) THEN 29 ELSE 28)
  ELSE IF m \in {4, 6, 9, 11} THEN 30 ELSE 31

\* time.Parse(XRefDateLayout, s): four-digit year, two-digit month and day,
\* month and day in range; the result is midnight UTC of that day
ParseDateOK(s) ==
  /\ Len(s) = 10
  /\ s[5] = "-" /\ s[8] = "-"
  /\ \A i \in {1, 2, 3, 4, 6, 7, 9, 10} : IsDigit(s[i])
  /\ Atoi(SubSeq(s, 6, 7)) \in 1..12
  /\ Atoi(SubSeq(s, 9, 10)) \in 1..DaysIn(Atoi(SubSeq(s, 6, 7)), Atoi(SubSeq(s, 1, 4)))

ParseDate(s) ==
  [year |-> Atoi(SubSeq(s, 1, 4)), month |-> Atoi(SubSeq(s, 6, 7)),
   day |-> Atoi(SubSeq(s, 9, 10)), hour |-> 0]

(***************************************************************************)
(* strconv.ParseFloat on decimal strings: optional sign, digits with at    *)
(* most one point and at least one digit.                                  *)
(***************************************************************************)
Unsigned(s) == IF s # <<>> /\ s[1] \in {"+", "-"} THEN Tail(s) ELSE s

PointAt(s) == IF \E i \in 1..Len(s) : s[i] = "." THEN CHOOSE i \in 1..Len(s) : s[i] = "." ELSE 0

\* the digits of s with the point removed
Mantissa(s) ==
  IF PointAt(s) = 0 THEN s ELSE SubSeq(s, 1, PointAt(s) - 1) \o SubSeq(s, PointAt(s) + 1, Len(s))

ParseFloatOK(s) ==
  LET m == Mantissa(Unsigned(s))
  IN  /\ m # <<>>
      /\ \A i \in 1..Len(m) : IsDigit(m[i])

ParseFloat(s) ==
  LET u    == Unsigned(s)
      frac == IF PointAt(u) = 0 THEN 0 ELSE Len(u) - PointAt(u)
      v    == Atoi(Mantissa(u))
  IN  Rat(IF s[1] = "-" THEN -v ELSE v, Pow10(frac))

(***************************************************************************)
(* The feed: the documents the server may answer with.                     *)
(***************************************************************************)
D1111 == <<"2", "0", "1", "6", "-", "1", "1", "-", "1", "1">>
D1110 == <<"2", "0", "1", "6", "-", "1", "1", "-", "1", "0">>
\* a date stamp time.Parse rejects (month 13)
D1301 == <<"2", "0", "1", "6", "-", "1", "3", "-", "0", "1">>

\* RawExchangeRate
Raw(c, r) == [Currency |-> c, Rate |-> r]

\* XRefRawData
Day(time, rates) == [RateTime |-> time, Rates |-> rates]

USD1 == Raw("USD", <<"1", ".", "0", "0", "2">>)
USD2 == Raw("USD", <<"1", ".", "0", "0", "3", "1">>)
USD3 == Raw("USD", <<"1", ".", "2", "6">>)
CHF1 == Raw("CHF", <<"1", ".", "0", "3">>)
PLN1 == Raw("PLN", <<"0", ".", "3", "2", "1", "1">>)
\* a rate string strconv.ParseFloat rejects
PLNBad == Raw("PLN", <<"0", ",", "3", "2">>)

\* XRefRawResponse.Data of each document
DocA == <<Day(D1111, <<USD1, CHF1>>), Day(D1110, <<USD2, PLN1>>)>>
DocB == <<Day(D1111, <<USD3, CHF1>>)>>
DocEmptyDay == <<Day(D1111, <<USD1>>), Day(D1110, <<>>)>>
DocMalformed == <<Day(D1111, <<USD1, CHF1>>), Day(D1110, <<USD2, PLNBad>>)>>
DocBadDate == <<Day(D1111, <<USD1>>), Day(D1301, <<USD1>>)>>

Docs == {DocA, DocB, DocEmptyDay, DocMalformed, DocBadDate}

\* what xml Decode has stored in the document when it fails part way
PartialDocs == {SubSeq(DocA, 1, k) : k \in 0..(Len(DocA) - 1)}

\* the answers to one GET: transport failure, decode failure, success
Outcomes ==
  {[kind |-> "getfail", doc |-> <<>>]}
    \cup {[kind |-> "decodefail", doc |-> d] : d \in PartialDocs}
    \cup {[kind |-> "ok", doc |-> d] : d \in Docs}

\* c.XRefData: nil, or a pointer to a document
NilData == [present |-> FALSE, Data |-> <<>>]

Response(d) == [present |-> TRUE, Data |-> d]

(***************************************************************************)
(* The callers' inputs.                                                    *)
(***************************************************************************)
At(y, m, d, h) == [year |-> y, month |-> m, day |-> d, hour |-> h]

Times == {At(2016, 11, 11, 23), At(2016, 11, 10, 23)}

Amounts == {[n |-> 2237, d |-> 1000], [n |-> -10, d |-> 1]}

Currencies == {"USD", "CHF", "EUR", "usd"}

Precisions == {0, MaxPrecision}

RefreshIntervals == {0, PositiveInterval}

\* seconds between the zero time.Time (the initial lastFetched) and the
\* construction of the client
StartTime == 1000

(***************************************************************************)
(* The client.                                                             *)
(***************************************************************************)
VARIABLES
  prec,             \* Client.prec
  RefreshInterval,  \* Client.RefreshInterval
  XRefData,         \* Client.XRefData
  lastFetched,      \* Client.lastFetched, in seconds since the zero time
  now,              \* time.Now(), in seconds since the zero time
  pc,               \* "idle", "FetchAll" inside the loop of FetchAll, or
                    \* "returned" when a call has handed its results back
  frame,            \* the locals of the running FetchAll
  ret,              \* the last call that returned: arguments and results
  fx,               \* what fetchXML did in the last step
  lastOK            \* time of the last fetchXML that ended without error
                    \* after a GET (0: none yet)

vars == <<prec, RefreshInterval, XRefData, lastFetched, now, pc, frame, ret, fx, lastOK>>

\* a map[time.Time]ExchangeRates
EmptyMap == <<>>

MapPut(m, k, v) == [x \in (DOMAIN m) \cup {k} |-> IF x = k THEN v ELSE m[x]]

NoTime == At(0, 0, 0, 0)

NoFrame == [days |-> <<>>, idx |-> 0, rates |-> EmptyMap, gets |-> 0]

NoRet ==
  [op |-> "none", t |-> NoTime, amount |-> Zero, source |-> "", target |-> "",
   err |-> "nil", rates |-> <<>>, result |-> Zero, all |-> EmptyMap, gets |-> 0,
   doc |-> <<>>]

IsGet(k) == k \in {"getfail", "decodefail", "ok"}

\* Client.fetchXML with o the answer of the server, should a GET be issued
fetchXML(data, fetched, o) ==
  IF ((now - fetched) < RefreshInterval) /\ (RefreshInterval > 0)
  THEN [XRefData |-> data, lastFetched |-> fetched, err |-> "nil", fx |-> "skip"]
  ELSE IF o.kind = "getfail"
  THEN [XRefData |-> data, lastFetched |-> fetched, err |-> "FetchFailed", fx |-> "getfail"]
  ELSE [XRefData |-> Response(o.doc), lastFetched |-> now,
        err |-> IF o.kind = "ok" THEN "nil" ELSE "FetchFailed", fx |-> o.kind]

\* newExchangeRate followed by Round(c.prec)
newExchangeRate(r) == [Currency |-> r.Currency, Rate |-> ParseFloat(r.Rate)]

Round(e, p) == [Currency |-> e.Currency, Rate |-> FloatToFixed(e.Rate, p)]

\* the loop of Fetch over dayData: the rates appended before the first
\* string that does not parse
RECURSIVE ParsedPrefix(_, _)
ParsedPrefix(dayData, p) ==
  IF dayData = <<>> \/ ~ParseFloatOK(Head(dayData).Rate) THEN <<>>
  ELSE <<Round(newExchangeRate(Head(dayData)), p)>> \o ParsedPrefix(Tail(dayData), p)

\* the day Fetch selects: the rates of the first entry with the time key
DayData(data, timeKey) ==
  LET hits == {i \in 1..Len(data) : data[i].RateTime = timeKey}
  IN  IF hits = {} THEN <<>>
      ELSE data[CHOOSE i \in hits : \A j \in hits : i <= j].Rates

\* Fetch without the check of an empty day
FetchEmptyDay(f, t) ==
  LET dayData == DayData(f.XRefData.Data, FormatDate(t))
      rates   == ParsedPrefix(dayData, prec)
  IN  IF f.err # "nil" THEN [rates |-> <<>>, err |-> f.err]
      ELSE IF ~f.XRefData.present THEN [rates |-> <<>>, err |-> "panic"]
      ELSE IF Len(rates) < Len(dayData) THEN [rates |-> rates, err |-> "MalformedRate"]
      ELSE [rates |-> rates, err |-> "nil"]

\* Client.Fetch after its call of fetchXML returned f
Fetch(f, t) ==
  LET dayData == DayData(f.XRefData.Data, FormatDate(t))
      rates   == ParsedPrefix(dayData, prec)
  IN  IF f.err # "nil" THEN [rates |-> <<>>, err |-> f.err]
      ELSE IF ~f.XRefData.present THEN [rates |-> <<>>, err |-> "panic"]
      ELSE IF Len(dayData) = 0 THEN [rates |-> <<>>, err |-> "DateNotFound"]
      ELSE IF Len(rates) < Len(dayData) THEN [rates |-> rates, err |-> "MalformedRate"]
      ELSE [rates |-> rates, err |-> "nil"]

\* Client.round without and with the optional precision
round(num) == FloatToFixed(num, prec)

round2(num, p) == FloatToFixed(num, p)

\* computeExchangeValue without the check of the amount
computeExchangeValueUnchecked(amount, in, to) ==
  IF in.Currency = to.Currency THEN [result |-> round(amount), err |-> "nil"]
  ELSE [result |-> round(RMul(round2(amount, 2), round(RDiv(to.Rate, in.Rate)))), err |-> "nil"]

\* computeExchangeValue returning the amount as it is for equal currencies
computeExchangeValueRaw(amount, in, to) ==
  IF RNeg(amount) THEN [result |-> Zero, err |-> "InvalidAmount"]
  ELSE IF in.Currency = to.Currency THEN [result |-> amount, err |-> "nil"]
  ELSE [result |-> round(RMul(round2(amount, 2), round(RDiv(to.Rate, in.Rate)))), err |-> "nil"]

\* computeExchangeValue rounding the amount to the precision of the client
computeExchangeValueAmountPrec(amount, in, to) ==
  IF RNeg(amount) THEN [result |-> Zero, err |-> "InvalidAmount"]
  ELSE IF in.Currency = to.Currency THEN [result |-> round(amount), err |-> "nil"]
  ELSE [result |-> round(RMul(round(amount), round(RDiv(to.Rate, in.Rate)))), err |-> "nil"]

\* Client.computeExchangeValue
computeExchangeValue(amount, in, to) ==
  IF RNeg(amount) THEN [result |-> Zero, err |-> "InvalidAmount"]
  ELSE IF in.Currency = to.Currency THEN [result |-> round(amount), err |-> "nil"]
  ELSE [result |-> round(RMul(round2(amount, 2), round(RDiv(to.Rate, in.Rate)))), err |-> "nil"]

\* the record Convert picks for a code: the last one of dayData with that
\* code, replaced by the EUR record when the code is EUR
Upper(c) == IF c = "usd" THEN "USD" ELSE c

\* a comparison of currency codes that ignores case
MatchFold(code, currency) == Upper(code) = Upper(currency)

\* source == rec.Currency, target == rec.Currency
Match(code, currency) == code = currency

Has(dayData, code) == code = EUCurr \/ \E i \in 1..Len(dayData) : Match(code, dayData[i].Currency)

Pick(dayData, code) ==
  IF code = EUCurr THEN [Currency |-> EUCurr, Rate |-> EURate]
  ELSE dayData[CHOOSE i \in 1..Len(dayData) :
                 /\ Match(code, dayData[i].Currency)
                 /\ \A j \in 1..Len(dayData) : Match(code, dayData[j].Currency) => j <= i]

\* Client.Convert after the fetchXML of its Fetch returned f
Convert(f, amount, source, target, t) ==
  LET day == Fetch(f, t)
  IN  IF day.err # "nil" THEN [result |-> Zero, err |-> day.err]
      ELSE IF ~Has(day.rates, source) \/ ~Has(day.rates, target)
      THEN [result |-> Zero, err |-> "UnknownCurrency"]
      ELSE computeExchangeValue(amount, Pick(day.rates, source), Pick(day.rates, target))

(***************************************************************************)
(* Init: the client New(precision, refreshInterval) returns.               *)
(***************************************************************************)
Init ==
  /\ prec \in Precisions
  /\ RefreshInterval \in RefreshIntervals
  /\ XRefData = NilData
  /\ lastFetched = 0
  /\ now = StartTime
  /\ pc = "idle"
  /\ frame = NoFrame
  /\ ret = NoRet
  /\ fx = "none"
  /\ lastOK = 0

\* the cache after fetchXML returned f
Cache(f) ==
  /\ XRefData' = f.XRefData
  /\ lastFetched' = f.lastFetched
  /\ fx' = f.fx
  /\ lastOK' = IF f.fx = "ok" THEN now ELSE lastOK

Gets(f) == IF IsGet(f.fx) THEN 1 ELSE 0

\* a second passes
Tick ==
  /\ now < StartTime + MaxTime
  /\ now' = now + 1
  /\ pc \in {"idle", "FetchAll"}
  /\ fx' = "none"
  /\ UNCHANGED <<prec, RefreshInterval, XRefData, lastFetched, pc, frame, ret, lastOK>>

\* a call of Client.Fetch(t)
FetchCall(t, o) ==
  /\ pc = "idle"
  /\ LET f == fetchXML(XRefData, lastFetched, o)
         r == Fetch(f, t)
     IN  /\ Cache(f)
         /\ ret' = [NoRet EXCEPT !.op = "Fetch", !.t = t, !.err = r.err,
                                 !.rates = r.rates, !.gets = Gets(f)]
  /\ pc' = "returned"
  /\ UNCHANGED <<prec, RefreshInterval, now, frame>>

\* a call of Client.Convert(amount, source, target, t)
ConvertCall(amount, source, target, t, o) ==
  /\ pc = "idle"
  /\ LET f == fetchXML(XRefData, lastFetched, o)
         r == Convert(f, amount, source, target, t)
     IN  /\ Cache(f)
         /\ ret' = [NoRet EXCEPT !.op = "Convert", !.t = t, !.amount = amount,
                                 !.source = source, !.target = target,
                                 !.err = r.err, !.result = r.result, !.gets = Gets(f)]
  /\ pc' = "returned"
  /\ UNCHANGED <<prec, RefreshInterval, now, frame>>

\* FetchAll returns (all, err); doc is the slice its loop ranges over, gets
\* the number of GETs issued since it was called
FetchAllReturn(all, err, gets, doc) ==
  /\ ret' = [NoRet EXCEPT !.op = "FetchAll", !.err = err, !.all = all,
                          !.gets = gets, !.doc = doc]
  /\ pc' = "returned"
  /\ frame' = NoFrame

\* a call of Client.FetchAll(), up to the first iteration of its loop
FetchAllCall(o) ==
  /\ pc = "idle"
  /\ LET f == fetchXML(XRefData, lastFetched, o)
     IN  /\ Cache(f)
         /\ IF f.err # "nil" THEN FetchAllReturn(EmptyMap, f.err, Gets(f), <<>>)
            ELSE IF ~f.XRefData.present THEN FetchAllReturn(EmptyMap, "panic", Gets(f), <<>>)
            ELSE IF Len(f.XRefData.Data) = 0 THEN FetchAllReturn(EmptyMap, "nil", Gets(f), <<>>)
            ELSE /\ pc' = "FetchAll"
                 /\ frame' = [days |-> f.XRefData.Data, idx |-> 1,
                              rates |-> EmptyMap, gets |-> Gets(f)]
                 /\ ret' = NoRet
  /\ UNCHANGED <<prec, RefreshInterval, now>>

\* an iteration of the loop of FetchAll whose time.Parse fails
FetchAllBadDate ==
  /\ pc = "FetchAll"
  /\ ~ParseDateOK(frame.days[frame.idx].RateTime)
  /\ FetchAllReturn(frame.rates, "BadDate", frame.gets, frame.days)
  /\ fx' = "none"
  /\ UNCHANGED <<prec, RefreshInterval, XRefData, lastFetched, now, lastOK>>

\* an iteration of the loop of FetchAll that calls Fetch
FetchAllDay(o) ==
  /\ pc = "FetchAll"
  /\ ParseDateOK(frame.days[frame.idx].RateTime)
  /\ LET t     == ParseDate(frame.days[frame.idx].RateTime)
         f     == fetchXML(XRefData, lastFetched, o)
         r     == Fetch(f, t)
         gets  == frame.gets + Gets(f)
         rates == MapPut(frame.rates, t, r.rates)
     IN  /\ Cache(f)
         /\ IF r.err # "nil" THEN FetchAllReturn(frame.rates, r.err, gets, frame.days)
            ELSE IF frame.idx = Len(frame.days) THEN FetchAllReturn(rates, "nil", gets, frame.days)
            ELSE /\ frame' = [frame EXCEPT !.idx = @ + 1, !.rates = rates, !.gets = gets]
                 /\ UNCHANGED <<pc, ret>>
  /\ UNCHANGED <<prec, RefreshInterval, now>>

\* the caller has the returned values and may call again
Resume ==
  /\ pc = "returned"
  /\ pc' = "idle"
  /\ ret' = NoRet
  /\ fx' = "none"
  /\ UNCHANGED <<prec, RefreshInterval, XRefData, lastFetched, now, frame, lastOK>>

Next ==
  \/ Tick
  \/ Resume
  \/ \E t \in Times, o \in Outcomes : FetchCall(t, o)
  \/ \E a \in Amounts, s \in Currencies, g \in Currencies, t \in Times, o \in Outcomes :
       ConvertCall(a, s, g, t, o)
  \/ \E o \in Outcomes : FetchAllCall(o)
  \/ FetchAllBadDate
  \/ \E o \in Outcomes : FetchAllDay(o)

Spec == Init /\ [][Next]_vars

\* a refresh interval above the age of the zero lastFetched: time.Sub
\* saturates at about 9223372036 seconds, and New takes any uint
HugeInterval == 2000

AnyRefreshIntervals == RefreshIntervals \cup {HugeInterval}

\* the client New returns, for every refresh interval it accepts
InitAny ==
  /\ prec \in Precisions
  /\ RefreshInterval \in AnyRefreshIntervals
  /\ XRefData = NilData
  /\ lastFetched = 0
  /\ now = StartTime
  /\ pc = "idle"
  /\ frame = NoFrame
  /\ ret = NoRet
  /\ fx = "none"
  /\ lastOK = 0

SpecAny == InitAny /\ [][Next]_vars

TypeOK ==
  /\ prec \in Precisions
  /\ RefreshInterval \in RefreshIntervals
  /\ now \in StartTime..(StartTime + MaxTime)
  /\ pc \in {"idle", "FetchAll", "returned"}
  /\ fx \in {"none", "skip", "getfail", "decodefail", "ok"}

(***************************************************************************)
(* Properties.                                                             *)
(***************************************************************************)
Returned(op) == pc = "returned" /\ ret.op = op

\* a step in which a handler called fetchXML
FetchStep == pc \in {"idle", "FetchAll"} /\ fx' # "none"

\* the freshness check of the last step ended without error
FreshOK == fx \in {"ok", "skip"}

\* the entries of the cached document stamped with the date of the call
Hits == {i \in 1..Len(XRefData.Data) : XRefData.Data[i].RateTime = FormatDate(ret.t)}

\* the raw rates of the first of them
RawDay == XRefData.Data[CHOOSE i \in Hits : \A j \in Hits : i <= j].Rates

DayMissing == Hits = {} \/ Len(RawDay) = 0

DayParses == \A i \in 1..Len(RawDay) : ParseFloatOK(RawDay[i].Rate)

Listed(code) == code = "EUR" \/ \E i \in 1..Len(RawDay) : RawDay[i].Currency = code

\* C1: a fetchXML that fails, at the GET or at the decoding, leaves the
\* cached document and the time of the last fetch as they were.
C1_FailedFetchKeepsCache ==
  [][(FetchStep /\ fx' \in {"getfail", "decodefail"})
       => (XRefData' = XRefData /\ lastFetched' = lastFetched)]_vars

\* C2: a freshness check issues a GET if and only if the refresh interval
\* is 0, or no fetch has succeeded yet, or the time since the last fetch
\* that succeeded is at least the refresh interval; otherwise the cached
\* document stays as it is.
C2_GetIffStale ==
  [][FetchStep =>
       /\ IsGet(fx') <=> (RefreshInterval = 0 \/ lastOK = 0 \/ now - lastOK >= RefreshInterval)
       /\ ~IsGet(fx') => XRefData' = XRefData]_vars

C4_NoPartialMap ==
  (Returned("FetchAll") /\ ret.err # "nil") => DOMAIN ret.all = {}

\* C5: a call of FetchAll issues at most one GET, and every day of its
\* result holds the rates of the document cached after its first
\* freshness check.
C5_OneFreshnessCheck ==
  Returned("FetchAll")
    => /\ ret.gets <= 1
       /\ \A t \in DOMAIN ret.all :
            ret.all[t] = ParsedPrefix(DayData(ret.doc, FormatDate(t)), prec)

\* C6: when a rate string of the requested day does not parse, Fetch fails
\* with MalformedRate and returns none of the rates that came before it,
\* and Convert for that day fails with the same error.
C6_NoPartialDay ==
  ((Returned("Fetch") \/ Returned("Convert")) /\ FreshOK /\ ~DayMissing /\ ~DayParses)
    => /\ ret.err = "MalformedRate"
       /\ ret.rates = <<>>

\* round half away from zero of n / d, for n >= 0 and d > 0
HalfUp(n, d) == (2 * n + d) \div (2 * d)

\* 10 to the precision in use: a precision below 1 counts as 1
Scale == Pow10(IF prec < 1 THEN 1 ELSE prec)

\* the returned result is k / Scale
ResultIs(k) == ret.result.n * Scale = k * ret.result.d

\* C7 as claimed: once the feed is fetched, Convert of an amount >= 0 from
\* a code to the same code succeeds with the amount rounded to the
\* precision, for every code and every date.
C7_IdentityAlways ==
  (Returned("Convert") /\ FreshOK /\ ret.amount.n >= 0 /\ ret.source = ret.target)
    => /\ ret.err = "nil"
       /\ ResultIs(HalfUp(ret.amount.n * Scale, ret.amount.d))

\* C7 amended: Convert of an amount >= 0 from a code to the same code
\* returns the amount rounded to the precision when the fetch did not
\* fail, the day is present with rates that all parse and the code is EUR
\* or listed for the day; otherwise it fails.
C7_IdentityWhenResolved ==
  (Returned("Convert") /\ ret.amount.n >= 0 /\ ret.source = ret.target)
    => IF FreshOK /\ ~DayMissing /\ DayParses /\ Listed(ret.source)
       THEN /\ ret.err = "nil"
            /\ ResultIs(HalfUp(ret.amount.n * Scale, ret.amount.d))
       ELSE ret.err # "nil"

\* a listed code converted to itself, with an amount that the rounding
\* changes
C7_Witness ==
  /\ Returned("Convert") /\ ret.err = "nil"
  /\ ret.source = ret.target /\ ret.source # "EUR"
  /\ ret.result # ret.amount

\* C8 as claimed: on a day that is present and not empty, Convert of an
\* amount >= 0 fails with UnknownCurrency when a code is neither EUR nor
\* listed for the day.
C8_UnknownCurrencyAnyDay ==
  (Returned("Convert") /\ ret.amount.n >= 0 /\ FreshOK /\ ~DayMissing
     /\ (~Listed(ret.source) \/ ~Listed(ret.target)))
    => (ret.err = "UnknownCurrency" /\ ret.result = Zero)

\* C8 amended: on a day that is present, not empty and whose rate strings
\* all parse, Convert of an amount >= 0 fails with UnknownCurrency when a
\* code is neither EUR nor listed for the day, whichever leg it is.
C8_UnknownCurrency ==
  (Returned("Convert") /\ ret.amount.n >= 0 /\ FreshOK /\ ~DayMissing /\ DayParses
     /\ (~Listed(ret.source) \/ ~Listed(ret.target)))
    => (ret.err = "UnknownCurrency" /\ ret.result = Zero)

\* a listed source with an unknown target that differs from a listed code
\* only in case
C8_Witness ==
  /\ Returned("Convert") /\ ret.err = "UnknownCurrency"
  /\ ret.source = "USD" /\ ret.target = "usd" /\ Listed("USD")

\* C9: after a freshness check without error, Fetch fails with
\* DateNotFound exactly when no entry of the cached document carries the
\* formatted date or the first such entry has no rates, and so does
\* Convert, for every pair of codes.
C9_DateNotFound ==
  ((Returned("Fetch") \/ Returned("Convert")) /\ FreshOK)
    => (ret.err = "DateNotFound" <=> DayMissing)

\* EUR to EUR fails on a day whose entry is there but empty
C9_Witness ==
  /\ Returned("Convert") /\ ret.err = "DateNotFound" /\ FreshOK
  /\ ret.source = "EUR" /\ ret.target = "EUR"
  /\ Hits # {}

\* the rate of a code on the day, as a multiple of 1 / Scale
RateOf(code) ==
  IF code = "EUR" THEN Scale
  ELSE LET v == ParseFloat(RawDay[CHOOSE i \in 1..Len(RawDay) : RawDay[i].Currency = code].Rate)
       IN  HalfUp(v.n * Scale, v.d)

\* C10: for an amount >= 0 and two different codes that resolve on a day
\* of the feed, Convert returns
\* toFixed(toFixed(amount, 2) * toFixed(targetRate / sourceRate, p), p).
C10_CrossRate ==
  (Returned("Convert") /\ ret.amount.n >= 0 /\ FreshOK /\ ~DayMissing /\ DayParses
     /\ Listed(ret.source) /\ Listed(ret.target) /\ ret.source # ret.target)
    => /\ ret.err = "nil"
       /\ ResultIs(HalfUp(HalfUp(ret.amount.n * 100, ret.amount.d)
                            * HalfUp(RateOf(ret.target) * Scale, RateOf(ret.source)),
                          100))

\* a conversion between two listed codes, neither of them EUR
C10_Witness ==
  /\ Returned("Convert") /\ ret.err = "nil"
  /\ ret.source = "CHF" /\ ret.target = "USD"
  /\ ret.result # Zero

\* C11: whenever the freshness check returns without error a document is
\* cached, so the day lookup of Fetch and FetchAll never reads an absent
\* document; and lastFetched is set only when a document is cached.
C11_DocumentPresent ==
  /\ FreshOK => XRefData.present
  /\ lastFetched # 0 => XRefData.present

====
